---- MODULE Spec2Model ----
(***************************************************************************)
(* Model of invoice_generator.py: calculate_invoice_totals, the prompt     *)
(* sequence of get_invoice_data_from_user, and the section-by-section      *)
(* composition of create_invoice_pdf, ending in doc.build(story).          *)
(*                                                                         *)
(* Numbers.  A Python number is a record [k, s, n, e]:                     *)
(*   k = "int"    the int  (-1)^s * n                      (e = 0)         *)
(*   k = "float"  the float (-1)^s * n / 2^e, n odd or e = 0; s = 1, n = 0 *)
(*                is the negative zero -0.0                                *)
(*   k = "inf"    the float infinity of sign s                             *)
(*   k = "nan"    the float NaN                                            *)
(* Every finite float of the model is a dyadic rational with a small       *)
(* numerator, and so are all products and sums formed from the bounded     *)
(* inputs: on these values IEEE-754 double arithmetic is exact, so the     *)
(* integer arithmetic below is what the interpreter computes.              *)
(***************************************************************************)
EXTENDS Integers, Sequences, FiniteSets, TLC

VARIABLES
  pc,          \* position of the running program
  entry,       \* which entry point this run models: "main", "api" or "totals"
  data,        \* the invoice_data dict: a function from its present keys
  story,       \* create_invoice_pdf: the list of flowables appended so far
  err,         \* the exception that ended the run ("" while none)
  builds,      \* number of doc.build(story) calls
  built,       \* the story handed to doc.build
  calcs,       \* number of calculate_invoice_totals calls
  result,      \* <<r>> once calculate_invoice_totals has returned r, else <<>>
  console      \* the last line print() wrote

vars == <<pc, entry, data, story, err, builds, built, calcs, result, console>>

----------------------------------------------------------------------------
(* Python numbers *)

RECURSIVE Pow(_, _)
Pow(b, e) == IF e = 0 THEN 1 ELSE b * Pow(b, e - 1)

Max(a, b) == IF a >= b THEN a ELSE b

PyInt(v) == [k |-> "int", s |-> IF v < 0 THEN 1 ELSE 0, n |-> IF v < 0 THEN -v ELSE v, e |-> 0]

RECURSIVE Fl(_, _, _)
(* the float (-1)^s * n / 2^e in lowest terms *)
Fl(s, n, e) ==
  IF n = 0 THEN [k |-> "float", s |-> s, n |-> 0, e |-> 0]
  ELSE IF e > 0 /\ n % 2 = 0 THEN Fl(s, n \div 2, e - 1)
  ELSE [k |-> "float", s |-> s, n |-> n, e |-> e]

NaN == [k |-> "nan", s |-> 0, n |-> 0, e |-> 0]
Inf(s) == [k |-> "inf", s |-> s, n |-> 0, e |-> 0]

IsFinite(x) == x.k \in {"int", "float"}
IsNaN(x) == x.k = "nan"
IsZero(x) == IsFinite(x) /\ x.n = 0

(* int -> float conversion in mixed arithmetic *)
ToFloat(x) == IF x.k = "int" THEN Fl(x.s, x.n, 0) ELSE x

(* signed numerator of a finite number over the denominator 2^E, E >= x.e *)
Num(x, E) == (IF x.s = 1 THEN -1 ELSE 1) * x.n * Pow(2, E - x.e)

Xor(a, b) == IF a = b THEN 0 ELSE 1

(* a * b *)
Mul(a, b) ==
  IF a.k = "int" /\ b.k = "int" THEN PyInt(Num(a, 0) * Num(b, 0))
  ELSE LET x == ToFloat(a)
           y == ToFloat(b)
       IN  IF IsNaN(x) \/ IsNaN(y) THEN NaN
           ELSE IF x.k = "inf" \/ y.k = "inf"
                THEN IF IsZero(x) \/ IsZero(y) THEN NaN ELSE Inf(Xor(x.s, y.s))
           ELSE Fl(Xor(x.s, y.s), x.n * y.n, x.e + y.e)

(* a + b *)
Add(a, b) ==
  IF a.k = "int" /\ b.k = "int" THEN PyInt(Num(a, 0) + Num(b, 0))
  ELSE LET x == ToFloat(a)
           y == ToFloat(b)
       IN  IF IsNaN(x) \/ IsNaN(y) THEN NaN
           ELSE IF x.k = "inf" /\ y.k = "inf"
                THEN IF x.s = y.s THEN x ELSE NaN
           ELSE IF x.k = "inf" THEN x
           ELSE IF y.k = "inf" THEN y
           ELSE LET E == Max(x.e, y.e)
                    v == Num(x, E) + Num(y, E)
                IN  IF v = 0
                    THEN Fl(IF x.s = 1 /\ y.s = 1 THEN 1 ELSE 0, 0, 0)
                    ELSE Fl(IF v < 0 THEN 1 ELSE 0, IF v < 0 THEN -v ELSE v, E)

----------------------------------------------------------------------------
(* Number formatting *)

(* num/den rounded to the nearest integer, an exact tie to the even one *)
RoundHalfEven(num, den) ==
  LET q == num \div den
      r == num % den
  IN  IF 2 * r < den THEN q
      ELSE IF 2 * r > den THEN q + 1
      ELSE IF q % 2 = 0 THEN q ELSE q + 1

RECURSIVE Digits(_, _)
(* v as exactly w decimal digits, zero padded *)
Digits(v, w) == IF w = 0 THEN "" ELSE Digits(v \div 10, w - 1) \o ToString(v % 10)

Sign(x) == IF x.s = 1 THEN "-" ELSE ""

(* format(x, ".2f") *)
Format2f(x) ==
  IF IsNaN(x) THEN "nan"
  ELSE IF x.k = "inf" THEN Sign(x) \o "inf"
  ELSE LET c == RoundHalfEven(x.n * 100, Pow(2, x.e))
       IN  Sign(x) \o ToString(c \div 100) \o "." \o Digits(c % 100, 2)

(* format(x, ".0f") *)
Format0f(x) ==
  IF IsNaN(x) THEN "nan"
  ELSE IF x.k = "inf" THEN Sign(x) \o "inf"
  ELSE Sign(x) \o ToString(RoundHalfEven(x.n, Pow(2, x.e)))

(* str(x) *)
Str(x) ==
  IF IsNaN(x) THEN "nan"
  ELSE IF x.k = "inf" THEN Sign(x) \o "inf"
  ELSE IF x.k = "int" THEN Sign(x) \o ToString(x.n)
  ELSE LET d == Pow(2, x.e)
           f == (x.n % d) * Pow(5, x.e)
       IN  Sign(x) \o ToString(x.n \div d) \o "."
             \o (IF x.e = 0 THEN "0" ELSE Digits(f, x.e))

----------------------------------------------------------------------------
(* calculate_invoice_totals *)

RECURSIVE SumFrom(_, _)
(* sum(...): the running total, starting from the int 0, left to right *)
SumFrom(acc, amounts) ==
  IF amounts = <<>> THEN acc
  ELSE SumFrom(Add(acc, Head(amounts)), Tail(amounts))

ItemAmount(item) == Mul(item.quantity, item.unit_price)

calculate_invoice_totals(items, tax_rate) ==
  LET subtotal == SumFrom(PyInt(0), [i \in 1..Len(items) |-> ItemAmount(items[i])])
      tax_amount == Mul(subtotal, tax_rate)
      total_amount == Add(subtotal, tax_amount)
  IN  [subtotal |-> subtotal, tax_amount |-> tax_amount, total_amount |-> total_amount]

----------------------------------------------------------------------------
(* Bounds and input universes *)

MaxItems == 2      \* longest item list
MaxLines == 2      \* longest address
MaxAbsent == 2     \* most keys missing from a record passed to create_invoice_pdf

RECURSIVE SeqsUpTo(_, _)
(* all sequences over S of length 0..n *)
SeqsUpTo(S, n) ==
  IF n = 0 THEN {<<>>}
  ELSE LET shorter == SeqsUpTo(S, n - 1)
       IN  shorter \cup {Append(q, x) : q \in {t \in shorter : Len(t) = n - 1}, x \in S}

Item(desc, q, p) == [description |-> desc, quantity |-> q, unit_price |-> p]

(* 2, 1.5, -1.0, nan, inf *)
Quantities == {PyInt(2), Fl(0, 3, 1), Fl(1, 1, 0), NaN, Inf(0)}
(* 0.125, 2.5, -0.25, 0.0, -inf *)
UnitPrices == {Fl(0, 1, 3), Fl(0, 5, 1), Fl(1, 1, 2), Fl(0, 0, 0), Inf(1)}
(* 0, 0.25, 0.125, -0.25, nan, inf *)
TaxRates == {PyInt(0), Fl(0, 1, 2), Fl(0, 1, 3), Fl(1, 1, 2), NaN, Inf(0)}

TotalsItems == {Item("Widget", q, p) : q \in Quantities, p \in UnitPrices}

----------------------------------------------------------------------------
(* Specification SpecTotals: calculate_invoice_totals applied to drawn inputs *)

NoData == [k \in {} |-> 0]

InitTotals ==
  /\ entry = "totals"
  /\ pc = "call"
  /\ \E items \in SeqsUpTo(TotalsItems, MaxItems), r \in TaxRates :
       data = [items |-> items, tax_rate |-> r]
  /\ story = <<>> /\ err = "" /\ builds = 0 /\ built = <<>>
  /\ calcs = 0 /\ result = <<>> /\ console = ""

CallTotals ==
  /\ entry = "totals" /\ pc = "call"
  /\ result' = <<calculate_invoice_totals(data.items, data.tax_rate)>>
  /\ calcs' = calcs + 1
  /\ pc' = "returned"
  /\ UNCHANGED <<entry, data, story, err, builds, built, console>>

NextTotals == CallTotals

SpecTotals == InitTotals /\ [][NextTotals]_vars

----------------------------------------------------------------------------
(* create_invoice_pdf: flowables.  Lengths are in tenths of an inch;        *)
(* TableStyle commands take no part in the story's content and are left out *)

Paragraph(text, style) ==
  [type |-> "Paragraph", text |-> text, style |-> style, height |-> 0,
   rows |-> <<>>, colWidths |-> <<>>]

Spacer(height) ==
  [type |-> "Spacer", text |-> "", style |-> "", height |-> height,
   rows |-> <<>>, colWidths |-> <<>>]

Table(rows, colWidths) ==
  [type |-> "Table", text |-> "", style |-> "", height |-> 0,
   rows |-> rows, colWidths |-> colWidths]

(* A date field holds a datetime or a str *)
DateTime(y, m, d) == [tag |-> "datetime", y |-> y, m |-> m, d |-> d, text |-> ""]
DateStr(text) == [tag |-> "str", y |-> 0, m |-> 0, d |-> 0, text |-> text]

(* mutant: month and day without their leading zero *)
StrftimeUnpadded(v) == Digits(v.y, 4) \o "-" \o ToString(v.m) \o "-" \o ToString(v.d)

(* v.strftime('%Y-%m-%d'), for years 1000..9999 *)
Strftime(v) == Digits(v.y, 4) \o "-" \o Digits(v.m, 2) \o "-" \o Digits(v.d, 2)

(* v.strftime('%Y-%m-%d') if isinstance(v, datetime) else v *)
DateCell(v) == IF v.tag = "datetime" THEN Strftime(v) ELSE v.text

Currency(x) == "$" \o Format2f(x)

Keys ==
  {"company_name", "company_address", "company_phone", "company_email",
   "invoice_number", "invoice_date", "due_date", "bill_to_name",
   "bill_to_address", "items", "subtotal", "tax_rate", "tax_amount",
   "total_amount", "payment_terms"}

(* Values standing in for the absent keys of d, so that a section's         *)
(* statements can be written down; a statement that reads an absent key     *)
(* raises before it appends anything, so none of these values is ever used  *)
Placeholder ==
  [k \in Keys |->
     CASE k \in {"company_address", "bill_to_address", "items"} -> <<>>
       [] k \in {"invoice_date", "due_date"} -> DateStr("")
       [] k \in {"subtotal", "tax_rate", "tax_amount", "total_amount"} -> PyInt(0)
       [] OTHER -> ""]

Filled(d) == [k \in Keys |-> IF k \in DOMAIN d THEN d[k] ELSE Placeholder[k]]

(* A statement: the keys of invoice_data it reads, in the order it reads    *)
(* them, and the flowables it appends to story                              *)
Stmt(reads, appends) == [reads |-> reads, appends |-> appends]

AddressParagraphs(lines) == [i \in 1..Len(lines) |-> Paragraph(lines[i], "Normal")]

(* 1. Company Header *)
CompanyHeaderStmts(d) ==
  << Stmt(<<"company_name">>, <<Paragraph(d.company_name, "h1")>>),
     Stmt(<<"company_address">>, AddressParagraphs(d.company_address)),
     Stmt(<<"company_phone">>, <<Paragraph("Phone: " \o d.company_phone, "Normal")>>),
     Stmt(<<"company_email">>, <<Paragraph("Email: " \o d.company_email, "Normal")>>),
     Stmt(<<>>, <<Spacer(2)>>) >>

(* 2. Invoice Title *)
InvoiceTitleStmts(d) ==
  << Stmt(<<>>, <<Paragraph("INVOICE", "h2")>>),
     Stmt(<<>>, <<Spacer(1)>>) >>

(* mutant: the due date is looked up before the invoice date *)
InvoiceDetailsStmtsDueFirst(d) ==
  << Stmt(<<"invoice_number", "due_date", "invoice_date">>,
          << Table(<< <<"Invoice #:", d.invoice_number>>,
                      <<"Invoice Date:", DateCell(d.invoice_date)>>,
                      <<"Due Date:", DateCell(d.due_date)>> >>,
                   <<20, 30>>) >>),
     Stmt(<<>>, <<Spacer(2)>>) >>

(* 3. Invoice Details *)
InvoiceDetailsStmts(d) ==
  << Stmt(<<"invoice_number", "invoice_date", "due_date">>,
          << Table(<< <<"Invoice #:", d.invoice_number>>,
                      <<"Invoice Date:", DateCell(d.invoice_date)>>,
                      <<"Due Date:", DateCell(d.due_date)>> >>,
                   <<20, 30>>) >>),
     Stmt(<<>>, <<Spacer(2)>>) >>

(* mutant: the name is appended after the address lines *)
BillToStmtsNameLast(d) ==
  << Stmt(<<>>, <<Paragraph("BILL TO:", "h3")>>),
     Stmt(<<"bill_to_address">>, AddressParagraphs(d.bill_to_address)),
     Stmt(<<"bill_to_name">>, <<Paragraph(d.bill_to_name, "Normal")>>),
     Stmt(<<>>, <<Spacer(2)>>) >>

(* 4. Bill To Section *)
BillToStmts(d) ==
  << Stmt(<<>>, <<Paragraph("BILL TO:", "h3")>>),
     Stmt(<<"bill_to_name">>, <<Paragraph(d.bill_to_name, "Normal")>>),
     Stmt(<<"bill_to_address">>, AddressParagraphs(d.bill_to_address)),
     Stmt(<<>>, <<Spacer(2)>>) >>

(* 5. Items Table *)
ItemRow(item) ==
  LET amount == Mul(item.quantity, item.unit_price)
  IN  <<item.description, Str(item.quantity), Currency(item.unit_price), Currency(amount)>>

(* mutant: the loop stops one item short *)
ItemsTableDataShort(items) ==
  << <<"Description", "Quantity", "Unit Price", "Amount">> >>
    \o [i \in 1..(Len(items) - 1) |-> ItemRow(items[i])]

ItemsTableData(items) ==
  << <<"Description", "Quantity", "Unit Price", "Amount">> >>
    \o [i \in 1..Len(items) |-> ItemRow(items[i])]

ItemsTableStmts(d) ==
  << Stmt(<<"items">>, <<Table(ItemsTableData(d.items), <<30, 10, 15, 15>>)>>),
     Stmt(<<>>, <<Spacer(2)>>) >>

(* 6. Totals *)
TaxLabel(tax_rate) == "Tax (" \o Format0f(Mul(tax_rate, PyInt(100))) \o "%):"

TotalsStmts(d) ==
  << Stmt(<<"subtotal", "tax_rate", "tax_amount", "total_amount">>,
          << Table(<< <<"Subtotal:", Currency(d.subtotal)>>,
                      <<TaxLabel(d.tax_rate), Currency(d.tax_amount)>>,
                      <<"TOTAL DUE:", Currency(d.total_amount)>> >>,
                   <<55, 20>>) >>),
     Stmt(<<>>, <<Spacer(2)>>) >>

(* 7. Payment Terms *)
PaymentTermsStmts(d) ==
  << Stmt(<<>>, <<Paragraph("Payment Terms:", "h3")>>),
     Stmt(<<"payment_terms">>, <<Paragraph(d.payment_terms, "Normal")>>),
     Stmt(<<>>, <<Spacer(5)>>) >>

(* 8. Footer/Thank You *)
FooterStmts(d) ==
  << Stmt(<<>>, <<Paragraph("Thank you for your business!", "h3")>>) >>

RECURSIVE FirstAbsent(_, _)
(* the first key of reads that d lacks, "" when it has them all *)
FirstAbsent(reads, d) ==
  IF reads = <<>> THEN ""
  ELSE IF Head(reads) \notin DOMAIN d THEN Head(reads)
  ELSE FirstAbsent(Tail(reads), d)

RECURSIVE Run(_, _, _)
(* Runs stmts in order on the dict d: the flowables appended after those    *)
(* of done, and the key whose lookup raised KeyError ("" when none did)     *)
Run(stmts, d, done) ==
  IF stmts = <<>> THEN [appended |-> done, missing |-> ""]
  ELSE LET k == FirstAbsent(Head(stmts).reads, d)
       IN  IF k # "" THEN [appended |-> done, missing |-> k]
           ELSE Run(Tail(stmts), d, done \o Head(stmts).appends)

KeyError(k) == "KeyError: '" \o k \o "'"

(* A section's statements have run with outcome r: a KeyError ends the     *)
(* call, otherwise control reaches the section named next                   *)
Ran(r, next) ==
  /\ story' = story \o r.appended
  /\ IF r.missing = ""
     THEN pc' = next /\ err' = err
     ELSE pc' = "raised" /\ err' = KeyError(r.missing)
  /\ UNCHANGED <<entry, data, builds, built, calcs, result, console>>

CompanyHeader ==
  /\ pc = "header"
  /\ Ran(Run(CompanyHeaderStmts(Filled(data)), data, <<>>), "title")

InvoiceTitle ==
  /\ pc = "title"
  /\ Ran(Run(InvoiceTitleStmts(Filled(data)), data, <<>>), "details")

InvoiceDetails ==
  /\ pc = "details"
  /\ Ran(Run(InvoiceDetailsStmts(Filled(data)), data, <<>>), "bill_to")

BillTo ==
  /\ pc = "bill_to"
  /\ Ran(Run(BillToStmts(Filled(data)), data, <<>>), "items")

ItemsTable ==
  /\ pc = "items"
  /\ Ran(Run(ItemsTableStmts(Filled(data)), data, <<>>), "totals")

Totals ==
  /\ pc = "totals"
  /\ Ran(Run(TotalsStmts(Filled(data)), data, <<>>), "terms")

PaymentTerms ==
  /\ pc = "terms"
  /\ Ran(Run(PaymentTermsStmts(Filled(data)), data, <<>>), "footer")

Footer ==
  /\ pc = "footer"
  /\ Ran(Run(FooterStmts(Filled(data)), data, <<>>), "build")

(* main passes invoice_<number>.pdf; the parameter's default is invoice.pdf *)
OutputFilename ==
  IF entry = "main" THEN "invoice_" \o data.invoice_number \o ".pdf" ELSE "invoice.pdf"

(* mutant: the build sits in a finally clause and runs after a KeyError too *)
BuildInFinally ==
  /\ pc \in {"build", "raised"}
  /\ builds < 1
  /\ builds' = builds + 1
  /\ built' = story
  /\ console' = "Invoice '" \o OutputFilename \o "' generated successfully!"
  /\ pc' = IF pc = "build" THEN "done" ELSE pc
  /\ UNCHANGED <<entry, data, story, err, calcs, result>>

(* doc.build(story); print(...) *)
Build ==
  /\ pc = "build"
  /\ builds' = builds + 1
  /\ built' = story
  /\ console' = "Invoice '" \o OutputFilename \o "' generated successfully!"
  /\ pc' = "done"
  /\ UNCHANGED <<entry, data, story, err, calcs, result>>

Compose ==
  \/ CompanyHeader \/ InvoiceTitle \/ InvoiceDetails \/ BillTo
  \/ ItemsTable \/ Totals \/ PaymentTerms \/ Footer \/ Build

----------------------------------------------------------------------------
(* Specification SpecCompose: create_invoice_pdf called on a drawn record *)

Lines == {"1 Main St", "Suite 2"}
Dates ==
  {DateTime(2024, 3, 15), DateStr("2024-03-15"),
   DateTime(1999, 12, 1), DateStr("1999-12-01")}
(* 69.875, 0.125, -0.375, -0.0, nan *)
Amounts == {Fl(0, 559, 3), Fl(0, 1, 3), Fl(1, 3, 3), Fl(1, 0, 0), NaN}

(* quantities 2, 1.5, -1.0, nan; unit prices 0.125, 2.5, 0.0, -inf *)
ApiItems ==
  {Item("Widget", q, p) :
     q \in {PyInt(2), Fl(0, 3, 1), Fl(1, 1, 0), NaN},
     p \in {Fl(0, 1, 3), Fl(0, 5, 1), Fl(0, 0, 0), Inf(1)}}
(* 0.25, 0.125, nan *)
ApiTaxRates == {Fl(0, 1, 2), Fl(0, 1, 3), NaN}

WithTotals(d, items, tax_rate) ==
  LET t == calculate_invoice_totals(items, tax_rate)
  IN  [d EXCEPT !.items = items, !.tax_rate = tax_rate, !.subtotal = t.subtotal,
                !.tax_amount = t.tax_amount, !.total_amount = t.total_amount]

BaseRecord ==
  WithTotals(
    [company_name |-> "Acme Ltd", company_address |-> <<"1 Main St">>,
     company_phone |-> "555-0100", company_email |-> "billing@acme.test",
     invoice_number |-> "INV-001", invoice_date |-> DateStr("2024-03-15"),
     due_date |-> DateTime(2024, 4, 14), bill_to_name |-> "Bob Smith",
     bill_to_address |-> <<"2 Side Rd">>, items |-> <<>>, subtotal |-> PyInt(0),
     tax_rate |-> PyInt(0), tax_amount |-> PyInt(0), total_amount |-> PyInt(0),
     payment_terms |-> "Net 30"],
    <<Item("Widget", PyInt(2), Fl(0, 1, 3))>>, Fl(0, 1, 2))

Without(d, absent) == [k \in DOMAIN d \ absent |-> d[k]]

ApiRecords ==
  (* records lacking up to MaxAbsent keys *)
  {Without(BaseRecord, absent) :
     absent \in {a \in SUBSET Keys : Cardinality(a) <= MaxAbsent}}
  \cup
  (* addresses and dates of every shape *)
  {[BaseRecord EXCEPT !.company_address = ca, !.bill_to_address = ba,
                      !.invoice_date = d1, !.due_date = d2] :
     ca \in SeqsUpTo(Lines, MaxLines), ba \in SeqsUpTo(Lines, MaxLines),
     d1 \in Dates, d2 \in Dates}
  \cup
  (* item lists, with the totals calculate_invoice_totals gives them *)
  {WithTotals(BaseRecord, items, r) :
     items \in SeqsUpTo(ApiItems, MaxItems), r \in ApiTaxRates}
  \cup
  (* totals of the caller's own *)
  {[BaseRecord EXCEPT !.subtotal = a, !.tax_amount = b, !.total_amount = c,
                      !.tax_rate = r] :
     a \in Amounts, b \in Amounts, c \in Amounts, r \in TaxRates}

InitCompose ==
  /\ entry = "api"
  /\ pc = "header"
  /\ data \in ApiRecords
  /\ story = <<>> /\ err = "" /\ builds = 0 /\ built = <<>>
  /\ calcs = 0 /\ result = <<>> /\ console = ""

NextCompose == Compose

SpecCompose == InitCompose /\ [][NextCompose]_vars

----------------------------------------------------------------------------
(* get_invoice_data_from_user and main *)

(* float(text) for the texts the operator types here: [ok, value];          *)
(* ok = FALSE is ValueError                                                 *)
ParseFloat(text) ==
  CASE text = "2"     -> [ok |-> TRUE, value |-> Fl(0, 2, 0)]
    [] text = "-1"    -> [ok |-> TRUE, value |-> Fl(1, 1, 0)]
    [] text = "0.125" -> [ok |-> TRUE, value |-> Fl(0, 1, 3)]
    [] text = "0.25"  -> [ok |-> TRUE, value |-> Fl(0, 1, 2)]
    [] text = "-0.25" -> [ok |-> TRUE, value |-> Fl(1, 1, 2)]
    [] text = "nan"   -> [ok |-> TRUE, value |-> NaN]
    [] text = "inf"   -> [ok |-> TRUE, value |-> Inf(0)]
    [] OTHER          -> [ok |-> FALSE, value |-> NaN]

(* text.lower() for the descriptions typed here *)
Lower(text) ==
  CASE text = "DONE" -> "done"
    [] text = "Widget" -> "widget"
    [] OTHER -> text

Descriptions == {"Widget", "done", "DONE"}
QuantityTexts == {"2", "-1", "nan", "abc"}
UnitPriceTexts == {"0.125", "inf", ""}
TaxRateTexts == {"0.25", "-0.25", "5%"}
MoreLines == {"Suite 2", ""}

Put(d, k, v) == [x \in DOMAIN d \cup {k} |-> IF x = k THEN v ELSE d[x]]

InitMain ==
  /\ entry = "main"
  /\ pc = "company"
  /\ data = NoData
  /\ story = <<>> /\ err = "" /\ builds = 0 /\ built = <<>>
  /\ calcs = 0 /\ result = <<>> /\ console = ""

(* lines 138-142 *)
PromptCompany ==
  /\ pc = "company"
  /\ data' = Put(Put(NoData, "company_name", "Acme Ltd"),
                 "company_address", <<"1 Main St">>)
  /\ console' = "\n--- Enter Invoice Details ---"
  /\ pc' = "company_address"
  /\ UNCHANGED <<entry, story, err, builds, built, calcs, result>>

(* lines 143-147: one pass of the loop *)
CompanyAddressLine ==
  /\ pc = "company_address"
  /\ \E line \in MoreLines :
       /\ line # "" => Len(data.company_address) < MaxLines
       /\ IF line = ""
          THEN pc' = "invoice" /\ data' = data
          ELSE /\ pc' = pc
               /\ data' = [data EXCEPT !.company_address = Append(@, line)]
  /\ UNCHANGED <<entry, story, err, builds, built, calcs, result, console>>

(* lines 148-156 *)
PromptInvoice ==
  /\ pc = "invoice"
  /\ data' = Put(Put(Put(Put(Put(Put(Put(data,
               "company_phone", "555-0100"),
               "company_email", "billing@acme.test"),
               "invoice_number", "INV-001"),
               "invoice_date", DateStr("2024-03-15")),
               "due_date", DateStr("2024-04-14")),
               "bill_to_name", "Bob Smith"),
               "bill_to_address", <<"2 Side Rd">>)
  /\ pc' = "bill_to_address"
  /\ UNCHANGED <<entry, story, err, builds, built, calcs, result, console>>

(* lines 157-161: one pass of the loop *)
BillToAddressLine ==
  /\ pc = "bill_to_address"
  /\ \E line \in MoreLines :
       /\ line # "" => Len(data.bill_to_address) < MaxLines
       /\ IF line = ""
          THEN pc' = "begin_items" /\ data' = data
          ELSE /\ pc' = pc
               /\ data' = [data EXCEPT !.bill_to_address = Append(@, line)]
  /\ UNCHANGED <<entry, story, err, builds, built, calcs, result, console>>

(* lines 163-164 *)
BeginItems ==
  /\ pc = "begin_items"
  /\ data' = Put(data, "items", <<>>)
  /\ console' = "\n--- Enter Items/Services (type 'done' when finished) ---"
  /\ pc' = "item_entry"
  /\ UNCHANGED <<entry, story, err, builds, built, calcs, result>>

(* lines 165-178: one pass of the loop.  unit_price is asked for only once  *)
(* float(quantity) has succeeded                                            *)
ItemEntry ==
  /\ pc = "item_entry"
  /\ \E description \in Descriptions, quantity \in QuantityTexts,
        unit_price \in UnitPriceTexts :
       IF Lower(description) = "done"
       THEN pc' = "tax_rate" /\ data' = data /\ console' = console
       ELSE /\ pc' = pc
            /\ IF ParseFloat(quantity).ok /\ ParseFloat(unit_price).ok
               THEN /\ Len(data.items) < MaxItems
                    /\ data' = [data EXCEPT !.items =
                                  Append(@, Item(description,
                                                 ParseFloat(quantity).value,
                                                 ParseFloat(unit_price).value))]
                    /\ console' = console
               ELSE /\ data' = data
                    /\ console' = "Invalid quantity or unit price. Please enter numbers."
  /\ UNCHANGED <<entry, story, err, builds, built, calcs, result>>

(* lines 180-185: one pass of the loop *)
TaxRateEntry ==
  /\ pc = "tax_rate"
  /\ \E text \in TaxRateTexts :
       IF ParseFloat(text).ok
       THEN /\ data' = Put(data, "tax_rate", ParseFloat(text).value)
            /\ pc' = "compute" /\ console' = console
       ELSE /\ data' = data /\ pc' = pc
            /\ console' = "Invalid tax rate. Please enter a number."
  /\ UNCHANGED <<entry, story, err, builds, built, calcs, result>>

(* mutant: the totals are computed with the tax rate left at 0 *)
ComputeTotalsWithoutRate ==
  /\ pc = "compute"
  /\ LET t == calculate_invoice_totals(data.items, PyInt(0))
     IN  data' = Put(Put(Put(data, "subtotal", t.subtotal),
                         "tax_amount", t.tax_amount),
                     "total_amount", t.total_amount)
  /\ calcs' = calcs + 1
  /\ pc' = "payment_terms"
  /\ UNCHANGED <<entry, story, err, builds, built, result, console>>

(* lines 187-190 *)
ComputeTotals ==
  /\ pc = "compute"
  /\ LET t == calculate_invoice_totals(data.items, data.tax_rate)
     IN  data' = Put(Put(Put(data, "subtotal", t.subtotal),
                         "tax_amount", t.tax_amount),
                     "total_amount", t.total_amount)
  /\ calcs' = calcs + 1
  /\ pc' = "payment_terms"
  /\ UNCHANGED <<entry, story, err, builds, built, result, console>>

(* lines 192-194, then main's call of create_invoice_pdf and its lines 34-36 *)
PromptPaymentTerms ==
  /\ pc = "payment_terms"
  /\ data' = Put(data, "payment_terms", "Net 30")
  /\ story' = <<>>
  /\ pc' = "header"
  /\ UNCHANGED <<entry, err, builds, built, calcs, result, console>>

GetInvoiceData ==
  \/ PromptCompany \/ CompanyAddressLine \/ PromptInvoice \/ BillToAddressLine
  \/ BeginItems \/ ItemEntry \/ TaxRateEntry \/ ComputeTotals \/ PromptPaymentTerms

Init == InitMain

Next == GetInvoiceData \/ Compose

Spec == Init /\ [][Next]_vars

----------------------------------------------------------------------------
(* Properties of calculate_invoice_totals (SpecTotals) *)

AllItemsFinite(items) ==
  \A i \in 1..Len(items) : IsFinite(items[i].quantity) /\ IsFinite(items[i].unit_price)

RECURSIVE SumOfProducts(_, _)
(* the integer  sum_i (2^E * quantity_i) * (2^E * unit_price_i) *)
SumOfProducts(items, E) ==
  IF items = <<>> THEN 0
  ELSE Num(Head(items).quantity, E) * Num(Head(items).unit_price, E)
         + SumOfProducts(Tail(items), E)

(* C1: for every item list, the empty one included, and every tax rate,     *)
(* calculate_invoice_totals returns subtotal = the sum over the items of    *)
(* quantity x unit_price, tax_amount = subtotal x tax_rate and total_amount *)
(* = subtotal + tax_amount, exactly; for the empty list all three results   *)
(* are 0 whatever the tax rate.  The arithmetic is stated in integers over  *)
(* the denominators 2^E (inputs), 2^2E (subtotal) and 2^3E (tax and         *)
(* total), 2^E being the largest denominator among the inputs, where every *)
(* input is a finite number (non-finite items are the case of C6); the      *)
(* empty-list clause is stated for every tax rate drawn.                    *)
C1_TotalsForEveryRate ==
  pc = "returned" =>
    LET r == result[1]
        E == 3
    IN  /\ data.items = <<>> =>
             IsZero(r.subtotal) /\ IsZero(r.tax_amount) /\ IsZero(r.total_amount)
        /\ (AllItemsFinite(data.items) /\ IsFinite(data.tax_rate)) =>
             /\ IsFinite(r.subtotal) /\ IsFinite(r.tax_amount) /\ IsFinite(r.total_amount)
             /\ r.subtotal.e <= 2 * E /\ r.tax_amount.e <= 3 * E
             /\ r.total_amount.e <= 3 * E
             /\ Num(r.subtotal, 2 * E) = SumOfProducts(data.items, E)
             /\ Num(r.tax_amount, 3 * E) = Num(r.subtotal, 2 * E) * Num(data.tax_rate, E)
             /\ Num(r.total_amount, 3 * E)
                  = Num(r.subtotal, 2 * E) * Pow(2, E) + Num(r.tax_amount, 3 * E)

(* C6: computing totals fails with InvalidInputError whenever an item's     *)
(* quantity or unit price is not a finite number, and returns no totals     *)
C6_NonFiniteRejected ==
  (pc = "returned" /\ ~AllItemsFinite(data.items)) =>
    (err = "InvalidInputError" /\ result = <<>>)

----------------------------------------------------------------------------
(* Properties of create_invoice_pdf (SpecCompose) *)

(* where the three tables stand in a complete story *)
DetailsAt == Len(data.company_address) + 7
ItemsAt == Len(data.company_address) + Len(data.bill_to_address) + 12
TotalsAt == Len(data.company_address) + Len(data.bill_to_address) + 14

IsSpacer(b) == b.type = "Spacer"
IsTable(b, n) == b.type = "Table" /\ Len(b.rows) = n

(* C2: composition appends the blocks in one fixed section order: company   *)
(* header (name, one paragraph per address line in order, phone, email,     *)
(* spacer), title, 3-row metadata table, bill-to section (heading, name,    *)
(* one paragraph per address line in order, spacer), line-item table,       *)
(* 3-row totals table, payment terms, and the footer as the last block;     *)
(* no section is skipped, repeated or reordered whatever the number of      *)
(* address lines or items                                                   *)
C2_FixedSectionOrder ==
  pc = "done" =>
    LET a == Len(data.company_address)
        b == Len(data.bill_to_address)
        s == built
    IN  /\ Len(s) = a + b + 19
        /\ s[1] = Paragraph(data.company_name, "h1")
        /\ \A i \in 1..a : s[1 + i] = Paragraph(data.company_address[i], "Normal")
        /\ s[a + 2] = Paragraph("Phone: " \o data.company_phone, "Normal")
        /\ s[a + 3] = Paragraph("Email: " \o data.company_email, "Normal")
        /\ IsSpacer(s[a + 4])
        /\ s[a + 5] = Paragraph("INVOICE", "h2")
        /\ IsSpacer(s[a + 6])
        /\ IsTable(s[a + 7], 3)
        /\ s[a + 7].rows[1] = <<"Invoice #:", data.invoice_number>>
        /\ IsSpacer(s[a + 8])
        /\ s[a + 9] = Paragraph("BILL TO:", "h3")
        /\ s[a + 10] = Paragraph(data.bill_to_name, "Normal")
        /\ \A i \in 1..b : s[a + 10 + i] = Paragraph(data.bill_to_address[i], "Normal")
        /\ IsSpacer(s[a + b + 11])
        /\ IsTable(s[a + b + 12], 1 + Len(data.items))
        /\ s[a + b + 12].rows[1][1] = "Description"
        /\ IsSpacer(s[a + b + 13])
        /\ IsTable(s[a + b + 14], 3)
        /\ s[a + b + 14].rows[3][1] = "TOTAL DUE:"
        /\ IsSpacer(s[a + b + 15])
        /\ s[a + b + 16] = Paragraph("Payment Terms:", "h3")
        /\ s[a + b + 17] = Paragraph(data.payment_terms, "Normal")
        /\ IsSpacer(s[a + b + 18])
        /\ s[a + b + 19] = Paragraph("Thank you for your business!", "h3")

(* a composed record whose two addresses have two different lines each *)
C2_Witness ==
  /\ pc = "done"
  /\ Len(data.company_address) = 2 /\ data.company_address[1] # data.company_address[2]
  /\ Len(data.bill_to_address) = 2 /\ data.bill_to_address[1] # data.bill_to_address[2]

(* C3: the line-item table has exactly 1 + len(items) rows: the header row  *)
(* first, then one row per item in the order of items, row i carrying item  *)
(* i's description, quantity, unit price and amount quantity x unit_price;  *)
(* with no items the table is the header row alone                          *)
C3_ItemRows ==
  pc = "done" =>
    LET rows == built[ItemsAt].rows
        items == data.items
    IN  /\ built[ItemsAt].type = "Table"
        /\ Len(rows) = 1 + Len(items)
        /\ rows[1] = <<"Description", "Quantity", "Unit Price", "Amount">>
        /\ \A i \in 1..Len(items) :
             rows[i + 1] = << items[i].description,
                              Str(items[i].quantity),
                              Currency(items[i].unit_price),
                              Currency(Mul(items[i].quantity, items[i].unit_price)) >>

(* a composed record with two items that give different rows *)
C3_Witness ==
  /\ pc = "done"
  /\ Len(data.items) = 2
  /\ built[ItemsAt].rows[2] # built[ItemsAt].rows[3]

(* the YYYY-MM-DD text of the dates drawn *)
IsoText(v) ==
  CASE v = DateTime(2024, 3, 15) -> "2024-03-15"
    [] v = DateTime(1999, 12, 1) -> "1999-12-01"
    [] v = DateTime(2024, 4, 14) -> "2024-04-14"

(* C4: in the metadata table a date given as a datetime is shown as its     *)
(* YYYY-MM-DD text and one given as a string is shown unchanged, so a       *)
(* datetime D and the string that is D's YYYY-MM-DD text are shown alike,   *)
(* in the Invoice Date row and in the Due Date row                          *)
C4_DatesShown ==
  pc = "done" =>
    LET rows == built[DetailsAt].rows
        Shown(v) == IF v.tag = "datetime" THEN IsoText(v) ELSE v.text
    IN  /\ rows[2] = <<"Invoice Date:", Shown(data.invoice_date)>>
        /\ rows[3] = <<"Due Date:", Shown(data.due_date)>>
        /\ \A D \in {d \in Dates : d.tag = "datetime"} :
             /\ data.invoice_date \in {D, DateStr(IsoText(D))} => rows[2][2] = IsoText(D)
             /\ data.due_date \in {D, DateStr(IsoText(D))} => rows[3][2] = IsoText(D)

(* a datetime with a one-digit day beside the string of the same day *)
C4_Witness ==
  /\ pc = "done"
  /\ data.invoice_date = DateTime(1999, 12, 1)
  /\ data.due_date = DateStr("1999-12-01")
  /\ built[DetailsAt].rows[2][2] = built[DetailsAt].rows[3][2]

(* the keys of invoice_data in the order create_invoice_pdf reads them *)
ReadOrder ==
  <<"company_name", "company_address", "company_phone", "company_email",
    "invoice_number", "invoice_date", "due_date", "bill_to_name",
    "bill_to_address", "items", "subtotal", "tax_rate", "tax_amount",
    "total_amount", "payment_terms">>

(* C5: when a required field of the record is absent, composition fails     *)
(* with the missing-field error (Python's KeyError) naming the first        *)
(* absent field, and never completes normally                               *)
C5_MissingFieldNamed ==
  /\ pc = "raised" =>
       \E i \in 1..Len(ReadOrder) :
         /\ err = KeyError(ReadOrder[i])
         /\ ReadOrder[i] \notin DOMAIN data
         /\ \A j \in 1..(i - 1) : ReadOrder[j] \in DOMAIN data
  /\ Keys \ DOMAIN data # {} => pc \notin {"build", "done"} /\ builds = 0
  /\ (Keys \ DOMAIN data # {} /\ err = "") =>
       \E i \in 1..Len(ReadOrder) :
         /\ ReadOrder[i] \notin DOMAIN data
         /\ \A j \in 1..(i - 1) : ReadOrder[j] \in DOMAIN data
         /\ pc \in {"header", "title", "details", "bill_to", "items", "totals", "terms"}

(* both dates absent: the error names the invoice date *)
C5_Witness ==
  /\ pc = "raised"
  /\ Keys \ DOMAIN data = {"invoice_date", "due_date"}
  /\ err = KeyError("invoice_date")

(* C7: composition is fail-fast: once an error has occurred doc.build is    *)
(* never invoked and no document is produced; on success the story is       *)
(* handed to doc.build exactly once, after all eight sections are appended  *)
C7_BuildOnceAtEnd ==
  /\ builds <= 1
  /\ err # "" => (pc = "raised" /\ builds = 0 /\ built = <<>>)
  /\ pc = "raised" => err # ""
  /\ pc # "done" => (builds = 0 /\ built = <<>>)
  /\ pc = "done" =>
       /\ builds = 1 /\ err = "" /\ built = story
       /\ Len(built) = Len(data.company_address) + Len(data.bill_to_address) + 19
       /\ Cardinality({i \in 1..Len(built) : built[i].type = "Table"}) = 3
       /\ built[Len(built)] = Paragraph("Thank you for your business!", "h3")

(* an error after several sections were appended: nothing is built *)
C7_Witness ==
  /\ pc = "raised"
  /\ Keys \ DOMAIN data = {"payment_terms"}
  /\ Len(story) > Len(data.company_address) + Len(data.bill_to_address) + 14
  /\ builds = 0

(* Currency cells *)

(* the pairs <<value, text shown>> of every currency cell of a built story *)
CurrencyCells ==
  LET irows == built[ItemsAt].rows
      trows == built[TotalsAt].rows
  IN  {<<data.items[i].unit_price, irows[i + 1][3]>> : i \in 1..Len(data.items)}
        \cup {<<Mul(data.items[i].quantity, data.items[i].unit_price), irows[i + 1][4]>> :
                i \in 1..Len(data.items)}
        \cup {<<data.subtotal, trows[1][2]>>, <<data.tax_amount, trows[2][2]>>,
              <<data.total_amount, trows[3][2]>>}

(* "$", the sign, and c cents written with two decimals *)
CentsText(s, c) ==
  "$" \o (IF s = 1 THEN "-" ELSE "") \o ToString(c \div 100) \o "."
      \o (IF c % 100 < 10 THEN "0" ELSE "") \o ToString(c % 100)

(* twice the distance from |x| to c cents, in units of 1/(100 * 2^x.e) *)
TwiceOff(x, c) ==
  LET v == 2 * (x.n * 100 - c * Pow(2, x.e))
  IN  IF v < 0 THEN -v ELSE v

(* c cents is |x| rounded to the nearest cent, an exact tie going up *)
IsHalfUp(x, c) ==
  /\ TwiceOff(x, c) <= Pow(2, x.e)
  /\ TwiceOff(x, c) = Pow(2, x.e) => c * Pow(2, x.e) > x.n * 100

CentsNear(x) == {(x.n * 100) \div Pow(2, x.e), (x.n * 100) \div Pow(2, x.e) + 1}

(* C8: every currency value shown (item unit price, item amount, subtotal,  *)
(* tax amount, total due) is "$" followed by the value rounded to 2         *)
(* decimal places, a tie going away from zero (half-up); stated of the      *)
(* finite values, sign kept                                                 *)
C8_CurrencyHalfUp ==
  pc = "done" =>
    \A cell \in CurrencyCells :
      IsFinite(cell[1]) =>
        \E c \in CentsNear(cell[1]) :
          IsHalfUp(cell[1], c) /\ cell[2] = CentsText(cell[1].s, c)

----------------------------------------------------------------------------
(* Properties of the main pipeline (Spec) *)

BeforeTotals ==
  {"company", "company_address", "invoice", "bill_to_address", "begin_items",
   "item_entry", "tax_rate", "compute"}

(* C9: in the main pipeline the totals are computed exactly once, after the *)
(* item list and the tax rate are final and before composition starts, and  *)
(* are not recomputed or altered afterwards: the subtotal, tax and total    *)
(* shown in the totals table are calculate_invoice_totals of the items      *)
(* shown in the line-item table and of the tax rate shown in the tax label  *)
C9_TotalsComputedOnce ==
  /\ pc \in BeforeTotals =>
       /\ calcs = 0
       /\ {"subtotal", "tax_amount", "total_amount"} \cap DOMAIN data = {}
  /\ pc \notin BeforeTotals =>
       LET t == calculate_invoice_totals(data.items, data.tax_rate)
       IN  /\ calcs = 1
           /\ data.subtotal = t.subtotal
           /\ data.tax_amount = t.tax_amount
           /\ data.total_amount = t.total_amount
  /\ pc = "done" =>
       LET t == calculate_invoice_totals(data.items, data.tax_rate)
       IN  /\ built[ItemsAt].rows = ItemsTableData(data.items)
           /\ built[TotalsAt].rows =
                << <<"Subtotal:", Currency(t.subtotal)>>,
                   <<TaxLabel(data.tax_rate), Currency(t.tax_amount)>>,
                   <<"TOTAL DUE:", Currency(t.total_amount)>> >>

(* an invoice of two items, taxed, built *)
C9_Witness ==
  /\ pc = "done"
  /\ entry = "main"
  /\ Len(data.items) = 2
  /\ calcs = 1
  /\ IsFinite(data.tax_amount) /\ ~IsZero(data.tax_amount)

(* C10: after any sequence of operator inputs to the item-entry loop every  *)
(* collected item has a quantity and a unit price that are non-negative     *)
(* finite numbers                                                           *)
C10_ItemsNonNegativeFinite ==
  "items" \in DOMAIN data =>
    \A i \in 1..Len(data.items) :
      /\ IsFinite(data.items[i].quantity) /\ data.items[i].quantity.s = 0
      /\ IsFinite(data.items[i].unit_price) /\ data.items[i].unit_price.s = 0

====
